---- MODULE Spec2Model ----
(***************************************************************************)
(* Authentication and token lifecycle of the contact-management backend   *)
(* (project/main.py, crud.py, models.py, security.py).                     *)
(*                                                                         *)
(* Every request handler runs with its own database session.  A handler   *)
(* that queries a row, changes it and commits is modelled as the steps    *)
(* the database sees: the SELECT, then the flush of the changed columns.  *)
(* Time is counted in seconds.                                             *)
(***************************************************************************)
EXTENDS Integers, Sequences, FiniteSets, TLC

\* ---------------------------------------------------------------- bounds
MaxTicks == 3        \* clock advances in one behaviour
MaxIssued == 3       \* signed tokens held by clients
MaxCalls == 8        \* contact-creation calls that reach the limiter, per client
MaxTicksRate == 2    \* clock advances, where the limiter is examined
MaxCallsFew == 1     \* the same, where the limiter is not what is examined
MaxIssuedRefresh == 4  \* signed tokens held by clients, where refresh is examined

\* ------------------------------------------------------ program constants
ACCESS_TOKEN_EXPIRE == 900       \* timedelta(minutes=15), in seconds
REFRESH_TOKEN_EXPIRE == 604800   \* timedelta(days=7), in seconds
RATE_AMOUNT == 5                 \* "5/minute"
RATE_WINDOW == 60                \* "5/minute", in seconds
WEEK == 7                        \* timedelta(days=7), in days
DAY == 86400                     \* seconds in the day datetime.now().date() names
YEAR == 365                      \* days in a year of the calendar (a common year)

\* ------------------------------------------------------------ input sets
Procs == {"w1", "w2"}                  \* concurrently running request handlers
Emails == {"a@x.com", "b@x.com"}
Passwords == {"longpassword1", "longpassword2"}
RegPasswords == {"longpassword1"}      \* passwords chosen at registration, two accounts
Salts == {"s1"}
Clients == {"10.0.0.1"}                \* remote addresses
Urls == {"http://img/1.jpg"}
NULL == 0                              \* a NULL verification_token
NoUrl == ""                            \* a NULL avatar_url
SECRET_KEY == "server-secret"
OtherKey == "other-secret"
UserIds == 1..Cardinality(Emails)

\* The mapped columns of the users table besides the primary key.
Columns == {"email", "hashed_password", "is_verified", "verification_token", "avatar_url"}

\* ------------------------------------------------------ Credential hasher
\* bcrypt: a salted one-way digest, the salt embedded in the digest.
get_password_hash(password, salt) ==
    [scheme |-> "bcrypt", salt |-> salt, checksum |-> <<salt, password>>]

verify_password(plain_password, hashed_password) ==
    hashed_password.checksum = <<hashed_password.salt, plain_password>>

\* ----------------------------------------------------------- Token service
NoJwt == [sub |-> "", exp |-> 0, key |-> "none"]

jwt_encode(sub, exp, key) == [sub |-> sub, exp |-> exp, key |-> key]

create_access_token(sub, t) == jwt_encode(sub, t + ACCESS_TOKEN_EXPIRE, SECRET_KEY)

\* A refresh token that lives as long as an access token.
create_refresh_token_short(sub, t) == jwt_encode(sub, t + ACCESS_TOKEN_EXPIRE, SECRET_KEY)

create_refresh_token(sub, t) == jwt_encode(sub, t + REFRESH_TOKEN_EXPIRE, SECRET_KEY)

\* A decode that already rejects the token in its last second.
jwt_decode_ok_early(token, t) == token.key = SECRET_KEY /\ token.exp > t

\* jwt.decode: the signature verifies against the server's key and the
\* token is not expired (jose rejects a token when exp < now).
jwt_decode_ok(token, t) == token.key = SECRET_KEY /\ ~(token.exp < t)

\* The payload jwt.decode returns; ok is FALSE where it raises JWTError.
jwt_decode(token, t) ==
    IF jwt_decode_ok(token, t)
    THEN [ok |-> TRUE, sub |-> token.sub]
    ELSE [ok |-> FALSE, sub |-> ""]


\* Tokens a client can present: the ones the server issued to it, and one
\* signed with a key that is not the server's.
Forged == {jwt_encode("a@x.com", 10 * REFRESH_TOKEN_EXPIRE, OtherKey)}

\* ------------------------------------------------------------------ state
VARIABLES
    users,        \* the users table: row i has primary key i
    contacts,     \* the contacts table
    outbox,       \* messages handed to the mail collaborator
    nextToken,    \* number of values secrets.token_urlsafe() has returned
    pc,           \* position of each request handler
    loc,          \* the handler's session: the loaded row and the ORM object
    issued,       \* signed tokens the server has returned: the response field that
                  \* carried it, the subject it was issued for and the time of issue
    now,          \* the clock, in seconds
    ticks,        \* number of clock advances
    storage,      \* limiter counters, per client key
    expirations,  \* limiter window ends, per client key
    calls,        \* per client key: time and verdict of each call that reached the limiter
    verify_ok,    \* verification tokens for which a Verify returned success, in order
    ev            \* the last step taken and the response it produced, if any

vars == <<users, contacts, outbox, nextToken, pc, loc, issued, now, ticks,
          storage, expirations, calls, verify_ok, ev>>

NoLocal == [id |-> 0, token |-> NULL, pending |-> <<>>]

NoEv == [op |-> "init", status |-> 0, detail |-> "", email |-> "", password |-> "",
         vtoken |-> NULL, body |-> <<>>,
         id |-> 0, jwt |-> NoJwt, access_token |-> NoJwt, refresh_token |-> NoJwt]

\* ------------------------------------------------------------- user store
\* A new user that is born verified.
User_preverified(email, hashed_password, token) ==
    [email |-> email, hashed_password |-> hashed_password, is_verified |-> TRUE,
     verification_token |-> token, avatar_url |-> NoUrl]

\* User(email=..., hashed_password=...) after generate_verification_token():
\* is_verified takes the column default, avatar_url is NULL.
User(email, hashed_password, token) ==
    [email |-> email, hashed_password |-> hashed_password, is_verified |-> FALSE,
     verification_token |-> token, avatar_url |-> NoUrl]

\* db.query(User).filter(<column> == value).first(): the primary key of the
\* matching row, 0 for None.
first_by(rows, column, value) ==
    LET S == {i \in DOMAIN rows : rows[i][column] = value}
    IN IF S = {} THEN 0 ELSE CHOOSE i \in S : \A j \in S : i <= j

\* A lookup that sees only verified users.
get_user_by_email_verified_only(rows, email) ==
    LET S == {i \in DOMAIN rows : rows[i].email = email /\ rows[i].is_verified}
    IN IF S = {} THEN 0 ELSE CHOOSE i \in S : \A j \in S : i <= j

get_user_by_email(rows, email) == first_by(rows, "email", email)

\* A lookup whose filter on the token is lost: the first row of the table.
get_user_by_token_unfiltered(rows, token) == IF rows = <<>> THEN 0 ELSE 1

get_user_by_token(rows, token) == first_by(rows, "verification_token", token)

get_user_by_id(rows, user_id) == IF user_id \in DOMAIN rows THEN user_id ELSE 0

\* Assigning an attribute of an ORM object, mapped to a column or not.
SetAttr(obj, a, v) == [x \in DOMAIN obj \cup {a} |-> IF x = a THEN v ELSE obj[x]]

\* A flush that writes every mapped column of the object back.
Dirty_every_column(loaded, obj) == [c \in Columns |-> obj[c]]

\* The session's pending changes of an object: the mapped columns whose
\* value differs from the loaded one, with the new value.  An attribute
\* that is no mapped column is not among them.
Dirty(loaded, obj) ==
    [c \in {x \in Columns : obj[x] # loaded[x]} |-> obj[c]]

\* db.commit() of a changed object: the UPDATE carries the pending columns,
\* and only those.
Flush(row, pending) ==
    [c \in Columns |-> IF c \in DOMAIN pending THEN pending[c] ELSE row[c]]

\* A users table whose only unique index is the one on verification_token.
UniqueViolation_token_only(rows, obj) ==
    \E i \in DOMAIN rows :
        obj.verification_token # NULL /\ rows[i].verification_token = obj.verification_token

\* The INSERT fails when a unique index (email, verification_token) is hit.
UniqueViolation(rows, obj) ==
    \E i \in DOMAIN rows :
        \/ rows[i].email = obj.email
        \/ obj.verification_token # NULL /\ rows[i].verification_token = obj.verification_token

\* ------------------------------------------------------------------ Init
Init ==
    /\ users = <<>>
    /\ contacts = <<>>
    /\ outbox = <<>>
    /\ nextToken = 0
    /\ pc = [p \in Procs |-> "idle"]
    /\ loc = [p \in Procs |-> NoLocal]
    /\ issued = {}
    /\ now = 0
    /\ ticks = 0
    /\ storage = [k \in Clients |-> 0]
    /\ expirations = [k \in Clients |-> 0]
    /\ calls = [k \in Clients |-> <<>>]
    /\ verify_ok = <<>>
    /\ ev = NoEv

\* ------------------------------------------------------------- Register
\* register_user up to the commit: the existence check, the new User
\* object and its verification token.
RegisterStart(p, email, password, salt) ==
    /\ pc[p] = "idle"
    /\ LET db_user == get_user_by_email(users, email)
           e == [NoEv EXCEPT !.op = "register", !.email = email]
       IN IF db_user # 0
          THEN /\ ev' = [e EXCEPT !.status = 400, !.detail = "Email already registered"]
               /\ UNCHANGED <<pc, loc, nextToken>>
          ELSE /\ nextToken' = nextToken + 1
               /\ loc' = [loc EXCEPT ![p] =
                     [NoLocal EXCEPT !.pending = User(email, get_password_hash(password, salt),
                                                      nextToken + 1)]]
               /\ pc' = [pc EXCEPT ![p] = "register_commit"]
               /\ ev' = [e EXCEPT !.vtoken = nextToken + 1]
    /\ UNCHANGED <<users, contacts, outbox, issued, now, ticks, storage, expirations,
                   calls, verify_ok>>

\* db.add(user); db.commit(); db.refresh(user); the empty-token check.
RegisterCommit(p) ==
    /\ pc[p] = "register_commit"
    /\ LET obj == loc[p].pending
           e == [NoEv EXCEPT !.op = "register_commit", !.email = obj.email,
                             !.vtoken = obj.verification_token]
       IN IF UniqueViolation(users, obj)
          THEN /\ ev' = [e EXCEPT !.status = 500, !.detail = "IntegrityError"]
               /\ pc' = [pc EXCEPT ![p] = "idle"]
               /\ loc' = [loc EXCEPT ![p] = NoLocal]
               /\ UNCHANGED users
          ELSE /\ users' = Append(users, obj)
               /\ IF obj.verification_token = NULL
                  THEN /\ ev' = [e EXCEPT !.status = 500,
                                          !.detail = "Failed to generate verification token",
                                          !.id = Len(users) + 1]
                       /\ pc' = [pc EXCEPT ![p] = "idle"]
                       /\ loc' = [loc EXCEPT ![p] = NoLocal]
                  ELSE /\ ev' = [e EXCEPT !.id = Len(users) + 1]
                       /\ pc' = [pc EXCEPT ![p] = "register_send"]
                       /\ loc' = [loc EXCEPT ![p].id = Len(users) + 1]
    /\ UNCHANGED <<contacts, outbox, nextToken, issued, now, ticks, storage, expirations,
                   calls, verify_ok>>

\* await fm.send_message(message) and the response.
RegisterSend(p) ==
    /\ pc[p] = "register_send"
    /\ outbox' = Append(outbox, [recipient |-> loc[p].pending.email,
                                 token |-> loc[p].pending.verification_token])
    /\ ev' = [NoEv EXCEPT !.op = "register_send", !.status = 200,
                          !.detail = "User created. Please check your email to verify your account.",
                          !.email = loc[p].pending.email, !.id = loc[p].id,
                          !.vtoken = loc[p].pending.verification_token]
    /\ pc' = [pc EXCEPT ![p] = "idle"]
    /\ loc' = [loc EXCEPT ![p] = NoLocal]
    /\ UNCHANGED <<users, contacts, nextToken, issued, now, ticks, storage, expirations,
                   calls, verify_ok>>

\* --------------------------------------------------------------- Verify
\* A verify that leaves the token in place.
verify_assign_keep_token(obj) ==
    SetAttr(SetAttr(obj, "is_verified", TRUE), "is_active", TRUE)

\* The three assignments verify makes to the object it found.
verify_assign(obj) ==
    SetAttr(SetAttr(SetAttr(obj, "is_verified", TRUE), "is_active", TRUE),
            "verification_token", NULL)

\* verify up to the commit: the lookup by token and the assignments.
VerifyStart(p, token) ==
    /\ pc[p] = "idle"
    /\ LET db_user == get_user_by_token(users, token)
           e == [NoEv EXCEPT !.op = "verify", !.vtoken = token]
       IN IF db_user = 0
          THEN /\ ev' = [e EXCEPT !.status = 400, !.detail = "Invalid token"]
               /\ UNCHANGED <<pc, loc>>
          ELSE /\ loc' = [loc EXCEPT ![p] = [id |-> db_user, token |-> users[db_user].verification_token,
                      pending |-> Dirty(users[db_user], verify_assign(users[db_user]))]]
               /\ pc' = [pc EXCEPT ![p] = "verify_commit"]
               /\ ev' = [e EXCEPT !.id = db_user]
    /\ UNCHANGED <<users, contacts, outbox, nextToken, issued, now, ticks, storage,
                   expirations, calls, verify_ok>>

\* db.commit() in verify, and the success response.
VerifyCommit(p) ==
    /\ pc[p] = "verify_commit"
    /\ users' = [users EXCEPT ![loc[p].id] = Flush(@, loc[p].pending)]
    /\ verify_ok' = Append(verify_ok, loc[p].token)
    /\ ev' = [NoEv EXCEPT !.op = "verify_commit", !.status = 200,
                          !.detail = "Account verified successfully", !.id = loc[p].id,
                          !.vtoken = loc[p].token]
    /\ pc' = [pc EXCEPT ![p] = "idle"]
    /\ loc' = [loc EXCEPT ![p] = NoLocal]
    /\ UNCHANGED <<contacts, outbox, nextToken, issued, now, ticks, storage, expirations,
                   calls>>

\* ------------------------------------------- administrative verify_user
verify_user_assign(obj) == SetAttr(obj, "is_verified", TRUE)

\* crud.verify_user up to the commit.
AdminVerifyStart(p, user_id) ==
    /\ pc[p] = "idle"
    /\ LET db_user == get_user_by_id(users, user_id)
           e == [NoEv EXCEPT !.op = "verify_user", !.id = user_id]
       IN IF db_user = 0
          THEN /\ ev' = [e EXCEPT !.detail = "None"]
               /\ UNCHANGED <<pc, loc>>
          ELSE /\ loc' = [loc EXCEPT ![p] = [id |-> db_user, token |-> users[db_user].verification_token,
                      pending |-> Dirty(users[db_user], verify_user_assign(users[db_user]))]]
               /\ pc' = [pc EXCEPT ![p] = "verify_user_commit"]
               /\ ev' = e
    /\ UNCHANGED <<users, contacts, outbox, nextToken, issued, now, ticks, storage,
                   expirations, calls, verify_ok>>

\* db.commit(); db.refresh(db_user) in crud.verify_user.
AdminVerifyCommit(p) ==
    /\ pc[p] = "verify_user_commit"
    /\ users' = [users EXCEPT ![loc[p].id] = Flush(@, loc[p].pending)]
    /\ ev' = [NoEv EXCEPT !.op = "verify_user_commit", !.id = loc[p].id]
    /\ pc' = [pc EXCEPT ![p] = "idle"]
    /\ loc' = [loc EXCEPT ![p] = NoLocal]
    /\ UNCHANGED <<contacts, outbox, nextToken, issued, now, ticks, storage, expirations,
                   calls, verify_ok>>

\* --------------------------------------------------------- avatar upload
upload_avatar_assign(obj, url) == SetAttr(obj, "avatar_url", url)

\* upload_avatar up to the commit: the lookup by id and the upload.
AvatarStart(p, user_id, url) ==
    /\ pc[p] = "idle"
    /\ LET user == get_user_by_id(users, user_id)
           e == [NoEv EXCEPT !.op = "upload_avatar", !.id = user_id]
       IN IF user = 0
          THEN /\ ev' = [e EXCEPT !.status = 404, !.detail = "User not found"]
               /\ UNCHANGED <<pc, loc>>
          ELSE /\ loc' = [loc EXCEPT ![p] = [id |-> user, token |-> users[user].verification_token,
                      pending |-> Dirty(users[user], upload_avatar_assign(users[user], url))]]
               /\ pc' = [pc EXCEPT ![p] = "upload_avatar_commit"]
               /\ ev' = e
    /\ UNCHANGED <<users, contacts, outbox, nextToken, issued, now, ticks, storage,
                   expirations, calls, verify_ok>>

\* db.add(user); db.commit() in upload_avatar, and the response.
AvatarCommit(p) ==
    /\ pc[p] = "upload_avatar_commit"
    /\ users' = [users EXCEPT ![loc[p].id] = Flush(@, loc[p].pending)]
    /\ ev' = [NoEv EXCEPT !.op = "upload_avatar_commit", !.status = 200,
                          !.id = loc[p].id]
    /\ pc' = [pc EXCEPT ![p] = "idle"]
    /\ loc' = [loc EXCEPT ![p] = NoLocal]
    /\ UNCHANGED <<contacts, outbox, nextToken, issued, now, ticks, storage, expirations,
                   calls, verify_ok>>

\* ---------------------------------------------------------------- Login
\* A login that tells an unknown email from a wrong password.
LoginResponse_telling(rows, email, password, t) ==
    LET db_user == get_user_by_email(rows, email)
    IN IF db_user = 0
       THEN [status |-> 404, detail |-> "User not found",
             access_token |-> NoJwt, refresh_token |-> NoJwt]
       ELSE IF ~verify_password(password, rows[db_user].hashed_password)
       THEN [status |-> 401, detail |-> "Incorrect username or password",
             access_token |-> NoJwt, refresh_token |-> NoJwt]
       ELSE [status |-> 200, detail |-> "bearer",
             access_token |-> create_access_token(email, t),
             refresh_token |-> create_refresh_token(email, t)]

\* A login that is open to verified users only.
LoginResponse_verified_only(rows, email, password, t) ==
    LET db_user == get_user_by_email(rows, email)
    IN IF db_user = 0 \/ ~verify_password(password, rows[db_user].hashed_password)
          \/ ~rows[db_user].is_verified
       THEN [status |-> 401, detail |-> "Incorrect username or password",
             access_token |-> NoJwt, refresh_token |-> NoJwt]
       ELSE [status |-> 200, detail |-> "bearer",
             access_token |-> create_access_token(email, t),
             refresh_token |-> create_refresh_token(email, t)]

\* What login_for_access_token answers at time t, given the users table.
LoginResponse(rows, email, password, t) ==
    LET db_user == get_user_by_email(rows, email)
    IN IF db_user = 0 \/ ~verify_password(password, rows[db_user].hashed_password)
       THEN [status |-> 401, detail |-> "Incorrect username or password",
             access_token |-> NoJwt, refresh_token |-> NoJwt]
       ELSE [status |-> 200, detail |-> "bearer",
             access_token |-> create_access_token(email, t),
             refresh_token |-> create_refresh_token(email, t)]

Login(email, password) ==
    LET r == LoginResponse(users, email, password, now)
        out == IF r.status = 200
               THEN {[kind |-> "access", tok |-> r.access_token, sub |-> email, at |-> now],
                     [kind |-> "refresh", tok |-> r.refresh_token, sub |-> email, at |-> now]}
               ELSE {}
    IN /\ issued' = issued \cup out
       /\ ev' = [NoEv EXCEPT !.op = "login", !.status = r.status, !.detail = r.detail,
                             !.email = email, !.password = password,
                             !.access_token = r.access_token,
                             !.refresh_token = r.refresh_token]
       /\ UNCHANGED <<users, contacts, outbox, nextToken, pc, loc, now, ticks, storage,
                      expirations, calls, verify_ok>>

\* -------------------------------------------------------------- Refresh
\* A check that reads the payload without verifying signature or expiry.
verify_refresh_token_unverified(token, t) == [ok |-> TRUE, sub |-> token.sub]

\* verify_refresh_token: the payload of the presented token; ok is FALSE
\* where it raises the 401.
verify_refresh_token(token, t) == jwt_decode(token, t)

Presentable == {i.tok : i \in issued} \cup Forged

RefreshAccessToken(token) ==
    /\ token \in Presentable
    /\ LET e == [NoEv EXCEPT !.op = "refresh", !.jwt = token]
           payload == verify_refresh_token(token, now)
       IN IF ~payload.ok
          THEN /\ ev' = [e EXCEPT !.status = 401, !.detail = "Invalid refresh token"]
               /\ UNCHANGED issued
          ELSE LET a == create_access_token(payload.sub, now)
               IN /\ issued' = issued \cup {[kind |-> "access", tok |-> a,
                                             sub |-> payload.sub, at |-> now]}
                  /\ ev' = [e EXCEPT !.status = 200, !.detail = "bearer", !.access_token = a]
    /\ UNCHANGED <<users, contacts, outbox, nextToken, pc, loc, now, ticks, storage,
                   expirations, calls, verify_ok>>

\* --------------------------------------------------- ResolveCurrentUser
\* A resolution that trusts the token and never consults the users table.
get_current_user_no_lookup(rows, token, t) ==
    LET payload == jwt_decode(token, t)
    IN IF ~payload.ok \/ payload.sub = "" THEN 0 ELSE 1

\* get_current_user: the primary key of the user the token resolves to, 0
\* when it raises the credentials exception.
get_current_user(rows, token, t) ==
    LET payload == jwt_decode(token, t)
    IN IF ~payload.ok \/ payload.sub = ""
       THEN 0
       ELSE get_user_by_email(rows, payload.sub)

\* --------------------------------------------------------- Rate limiter
\* The limiter's fixed window in memory storage: a counter per key that
\* lives RATE_WINDOW seconds from the hit that created it.
incr_count(st, ex, k, t) == IF ex[k] <= t THEN 1 ELSE st[k] + 1

\* A window whose end moves with every hit.
incr_expiry_elastic(st, ex, k, t) == t + RATE_WINDOW

incr_expiry(st, ex, k, t) == IF ex[k] <= t THEN t + RATE_WINDOW ELSE ex[k]

limiter_hit(st, ex, k, t) == incr_count(st, ex, k, t) <= RATE_AMOUNT

\* ------------------------------------------------------- Create contact
Payloads == {"valid", "invalid", "duplicate"}

\* POST /contacts/: the dependency get_current_user, the validation of the
\* body, the limiter around the endpoint, then crud.create_contact.
CreateContact(client, token, payload) ==
    /\ token \in Presentable
    /\ payload = "duplicate" => contacts # <<>>
    /\ LET current_user == get_current_user(users, token, now)
           e == [NoEv EXCEPT !.op = "create_contact", !.jwt = token,
                             !.detail = payload]
       IN IF current_user = 0
          THEN /\ ev' = [e EXCEPT !.status = 401, !.detail = "Could not validate credentials"]
               /\ UNCHANGED <<contacts, storage, expirations, calls>>
          ELSE IF payload = "invalid"
          THEN /\ ev' = [e EXCEPT !.status = 422, !.id = current_user]
               /\ UNCHANGED <<contacts, storage, expirations, calls>>
          ELSE /\ storage' = [storage EXCEPT ![client] = incr_count(storage, expirations, client, now)]
               /\ expirations' = [expirations EXCEPT
                                     ![client] = incr_expiry(storage, expirations, client, now)]
               /\ calls' = [calls EXCEPT ![client] =
                              Append(@, [t |-> now,
                                         ok |-> limiter_hit(storage, expirations, client, now)])]
               /\ IF ~limiter_hit(storage, expirations, client, now)
                  THEN /\ ev' = [e EXCEPT !.status = 429, !.id = current_user]
                       /\ UNCHANGED contacts
                  ELSE IF payload = "duplicate"
                  THEN /\ ev' = [e EXCEPT !.status = 500, !.id = current_user]
                       /\ UNCHANGED contacts
                  ELSE /\ contacts' = Append(contacts, [owner_id |-> current_user])
                       /\ ev' = [e EXCEPT !.status = 200, !.id = current_user]
    /\ UNCHANGED <<users, outbox, nextToken, pc, loc, issued, now, ticks, verify_ok>>

\* --------------------------------------------------- Upcoming birthdays
\* A Date is the number of its day, counted from the first day of year 0;
\* the order of dates is the order of these numbers.
date(t) == t \div DAY

\* Contact.birthday.between(today, next_week): the bounds are included.
between(d, lo, hi) == lo <= d /\ d <= hi

\* crud.upcoming_birthdays: the rows the query returns, in table order.
upcoming_birthdays(rows, t) ==
    LET today == date(t)
        next_week == today + WEEK
        in_range(c) == between(c.birthday, today, next_week)
    IN SelectSeq(rows, in_range)

\* GET /contacts/upcoming_birthdays/
GetUpcomingBirthdays ==
    /\ ev' = [NoEv EXCEPT !.op = "upcoming_birthdays", !.status = 200,
                          !.body = upcoming_birthdays(contacts, now)]
    /\ UNCHANGED <<users, contacts, outbox, nextToken, pc, loc, issued, now, ticks,
                   storage, expirations, calls, verify_ok>>

\* ---------------------------------------------------------------- Clock
Tick(d) ==
    /\ now' = now + d
    /\ ticks' = ticks + 1
    /\ ev' = [NoEv EXCEPT !.op = "tick"]
    /\ UNCHANGED <<users, contacts, outbox, nextToken, pc, loc, issued, storage,
                   expirations, calls, verify_ok>>

\* ------------------------------------------------------- specifications
\* Registration, verification and login of two users by two handlers.
Next ==
    \/ \E p \in Procs, e \in Emails, pw \in RegPasswords, s \in Salts : RegisterStart(p, e, pw, s)
    \/ \E p \in Procs : RegisterCommit(p)
    \/ \E p \in Procs : RegisterSend(p)
    \/ \E p \in Procs, t \in 1..(nextToken + 1) : VerifyStart(p, t)
    \/ \E p \in Procs : VerifyCommit(p)
    \/ \E e \in Emails, pw \in Passwords : Login(e, pw) /\ Cardinality(issued') <= MaxIssued

Spec == Init /\ [][Next]_vars

\* Every operation, on one account, at one instant.

NextAll ==
    \/ \E p \in Procs, pw \in Passwords, s \in Salts : RegisterStart(p, "a@x.com", pw, s)
    \/ \E p \in Procs : RegisterCommit(p)
    \/ \E p \in Procs : RegisterSend(p)
    \/ \E p \in Procs, t \in 1..(nextToken + 1) : VerifyStart(p, t)
    \/ \E p \in Procs : VerifyCommit(p)
    \/ \E p \in Procs, i \in UserIds : AdminVerifyStart(p, i)
    \/ \E p \in Procs : AdminVerifyCommit(p)
    \/ \E p \in Procs, i \in UserIds, u \in Urls : AvatarStart(p, i, u)
    \/ \E p \in Procs : AvatarCommit(p)
    \/ \E pw \in Passwords : Login("a@x.com", pw)
    \/ \E t \in Presentable : RefreshAccessToken(t)
    \/ \E k \in Clients, t \in Presentable, pl \in Payloads :
          CreateContact(k, t, pl) /\ Len(calls'[k]) <= MaxCallsFew

SpecAll == Init /\ [][NextAll]_vars

\* The state after Register("a@x.com", "longpassword1") and Verify of the
\* token that was mailed.
InitTok ==
    /\ users = <<[User("a@x.com", get_password_hash("longpassword1", "s1"), NULL)
                    EXCEPT !.is_verified = TRUE]>>
    /\ contacts = <<>>
    /\ outbox = <<[recipient |-> "a@x.com", token |-> 1]>>
    /\ nextToken = 1
    /\ pc = [p \in Procs |-> "idle"]
    /\ loc = [p \in Procs |-> NoLocal]
    /\ issued = {}
    /\ now = 0
    /\ ticks = 0
    /\ storage = [k \in Clients |-> 0]
    /\ expirations = [k \in Clients |-> 0]
    /\ calls = [k \in Clients |-> <<>>]
    /\ verify_ok = <<1>>
    /\ ev = [NoEv EXCEPT !.op = "verify_commit", !.status = 200,
                         !.detail = "Account verified successfully", !.id = 1, !.vtoken = 1]

\* Login, refresh and token resolution as the clock moves past the expiry times.
TickStepsTok == {1, ACCESS_TOKEN_EXPIRE - 1, REFRESH_TOKEN_EXPIRE - 1}

NextTok ==
    \/ \E e \in Emails, pw \in Passwords : Login(e, pw) /\ Cardinality(issued') <= MaxIssued
    \/ \E t \in Presentable : RefreshAccessToken(t) /\ Cardinality(issued') <= MaxIssued
    \/ \E k \in Clients, t \in Presentable, pl \in {"valid"} :
          CreateContact(k, t, pl) /\ Len(calls'[k]) <= MaxCallsFew
    \/ \E d \in TickStepsTok : ticks < MaxTicks /\ Tick(d)

SpecTok == InitTok /\ [][NextTok]_vars

\* The state after that user's Login at time 0.
InitRate ==
    /\ users = <<[User("a@x.com", get_password_hash("longpassword1", "s1"), NULL)
                    EXCEPT !.is_verified = TRUE]>>
    /\ contacts = <<>>
    /\ outbox = <<[recipient |-> "a@x.com", token |-> 1]>>
    /\ nextToken = 1
    /\ pc = [p \in Procs |-> "idle"]
    /\ loc = [p \in Procs |-> NoLocal]
    /\ issued = {[kind |-> "access", tok |-> create_access_token("a@x.com", 0),
                  sub |-> "a@x.com", at |-> 0],
                 [kind |-> "refresh", tok |-> create_refresh_token("a@x.com", 0),
                  sub |-> "a@x.com", at |-> 0]}
    /\ now = 0
    /\ ticks = 0
    /\ storage = [k \in Clients |-> 0]
    /\ expirations = [k \in Clients |-> 0]
    /\ calls = [k \in Clients |-> <<>>]
    /\ verify_ok = <<1>>
    /\ ev = [NoEv EXCEPT !.op = "login", !.status = 200, !.detail = "bearer",
                         !.email = "a@x.com", !.password = "longpassword1",
                         !.access_token = create_access_token("a@x.com", 0),
                         !.refresh_token = create_refresh_token("a@x.com", 0)]

\* Contact creation as the clock moves across the limiter's windows.
TickStepsRate == {1, RATE_WINDOW - 1}

NextRate ==
    \/ \E k \in Clients, t \in Presentable, pl \in Payloads :
          CreateContact(k, t, pl) /\ Len(calls'[k]) <= MaxCalls
    \/ \E d \in TickStepsRate : ticks < MaxTicksRate /\ Tick(d)

SpecRate == InitRate /\ [][NextRate]_vars

\* Repeated refresh, from the state after Login at time 0, as the clock
\* moves past the expiry times.
NextRefresh ==
    \/ \E t \in Presentable :
          RefreshAccessToken(t) /\ Cardinality(issued') <= MaxIssuedRefresh
    \/ \E d \in TickStepsTok : ticks < MaxTicks /\ Tick(d)

SpecRefresh == InitRate /\ [][NextRefresh]_vars

\* get_current_user over its inputs: a users table of none, one or two
\* users, and a bearer token signed with the server's key whose subject is
\* absent (""), a stored email or an email that is not stored, and whose
\* exp is the present second or 15 minutes ahead.
UsersInputs ==
    {<<>>,
     <<User("a@x.com", get_password_hash("longpassword1", "s1"), 1)>>,
     <<User("a@x.com", get_password_hash("longpassword1", "s1"), 1),
       User("b@x.com", get_password_hash("longpassword1", "s1"), 2)>>}

TokenInputs ==
    {jwt_encode(sub, exp, SECRET_KEY) :
        sub \in {""} \cup Emails, exp \in {0, ACCESS_TOKEN_EXPIRE}}

InitResolve ==
    /\ users \in UsersInputs
    /\ contacts = <<>>
    /\ outbox = [i \in DOMAIN users |-> [recipient |-> users[i].email, token |-> i]]
    /\ nextToken = Len(users)
    /\ pc = [p \in Procs |-> "idle"]
    /\ loc = [p \in Procs |-> NoLocal]
    /\ \E tk \in TokenInputs :
          issued = {[kind |-> "access", tok |-> tk, sub |-> tk.sub, at |-> 0]}
    /\ now = 0
    /\ ticks = 0
    /\ storage = [k \in Clients |-> 0]
    /\ expirations = [k \in Clients |-> 0]
    /\ calls = [k \in Clients |-> <<>>]
    /\ verify_ok = <<>>
    /\ ev = NoEv

NextResolve ==
    \/ \E k \in Clients, t \in Presentable, pl \in Payloads :
          CreateContact(k, t, pl) /\ Len(calls'[k]) <= MaxCallsFew
    \/ \E d \in {1} : ticks < MaxTicks /\ Tick(d)

SpecResolve == InitResolve /\ [][NextResolve]_vars

\* The birthday listing over its inputs: the present day, and a contacts
\* table of up to two rows whose birthdays lie in an earlier year or in
\* the present one, near the present day or far from it.
TodayInputs == {30 * YEAR + 100, 30 * YEAR + 360}

BirthdayInputs ==
    {20 * YEAR + 103, 20 * YEAR + 107, 20 * YEAR + 108, 20 * YEAR + 2,
     30 * YEAR + 103, 30 * YEAR + 99}

ContactsInputs ==
    {<<>>} \cup {<<[owner_id |-> 1, birthday |-> b]>> : b \in BirthdayInputs}
           \cup {<<[owner_id |-> 1, birthday |-> b1], [owner_id |-> 1, birthday |-> b2]>> :
                    b1 \in BirthdayInputs, b2 \in BirthdayInputs}

InitBirthdays ==
    /\ users = <<[User("a@x.com", get_password_hash("longpassword1", "s1"), NULL)
                    EXCEPT !.is_verified = TRUE]>>
    /\ contacts \in ContactsInputs
    /\ outbox = <<[recipient |-> "a@x.com", token |-> 1]>>
    /\ nextToken = 1
    /\ pc = [p \in Procs |-> "idle"]
    /\ loc = [p \in Procs |-> NoLocal]
    /\ issued = {}
    /\ \E d \in TodayInputs : now = d * DAY
    /\ ticks = 0
    /\ storage = [k \in Clients |-> 0]
    /\ expirations = [k \in Clients |-> 0]
    /\ calls = [k \in Clients |-> <<>>]
    /\ verify_ok = <<1>>
    /\ ev = NoEv

NextBirthdays ==
    \/ GetUpcomingBirthdays
    \/ \E d \in {DAY} : ticks < MaxTicks /\ Tick(d)

SpecBirthdays == InitBirthdays /\ [][NextBirthdays]_vars

\* ------------------------------------------------ properties of the model

Stored(email) == \E i \in DOMAIN users : users[i].email = email

\* C1: a verification token is single-use under concurrency: of the Verify
\* calls made with one token, however their lookups and commits interleave,
\* exactly one returns success.  Stated as: no token has two successes.
C1_TokenSingleUse ==
    \A i, j \in DOMAIN verify_ok : verify_ok[i] = verify_ok[j] => i = j

\* C2: access and refresh tokens are not interchangeable: a refresh that
\* succeeds was presented a token the server issued as a refresh token.
IssuedAs(kind, token) == \E i \in issued : i.kind = kind /\ i.tok = token

C2_RefreshTakesRefreshTokensOnly ==
    (ev.op = "refresh" /\ ev.status = 200) => IssuedAs("refresh", ev.jwt)

\* C3: an issued access token decodes, to the subject it was issued for,
\* at every time up to its exp and at no time after it; once it no longer
\* decodes, no step makes it decode again.
C3_AccessTokenValidUntilExp ==
    [][\A i \in issued :
          i.kind = "access" =>
              /\ now <= i.tok.exp =>
                    (jwt_decode(i.tok, now).ok /\ jwt_decode(i.tok, now).sub = i.sub
                     /\ get_current_user(users, i.tok, now) # 0
                     /\ users[get_current_user(users, i.tok, now)].email = i.sub)
              /\ now > i.tok.exp =>
                    (~jwt_decode(i.tok, now).ok /\ get_current_user(users, i.tok, now) = 0)
              /\ ~jwt_decode(i.tok, now).ok => ~jwt_decode(i.tok, now').ok]_vars

\* An access token presented in the second after its exp was turned away,
\* and another one is in the last second of its life.
C3_Witness ==
    /\ ev.op = "create_contact" /\ ev.status = 401
    /\ IssuedAs("access", ev.jwt) /\ now = ev.jwt.exp + 1
    /\ \E i \in issued : i.kind = "access" /\ i.tok.exp = now

\* C4: Register with an email that a stored user already has answers 400
\* "Email already registered", stores nothing, changes no record, sends no
\* mail and ends there.
C4_DuplicateEmailRejected ==
    [][(ev'.op = "register" /\ Stored(ev'.email)) =>
          /\ ev'.status = 400
          /\ ev'.detail = "Email already registered"
          /\ users' = users
          /\ outbox' = outbox
          /\ pc' = pc]_vars

\* A Register was answered 400 for an email that is stored.
C4_Witness ==
    ev.op = "register" /\ ev.status = 400 /\ Stored(ev.email) /\ Len(outbox) = Len(users)

\* C5: a Login that fails is answered the same way whether the email is
\* unknown or the password is wrong: 401, the same message, no tokens; and
\* the failed Login changes neither the user store nor the issued tokens.
UnknownEmail(email) == ~Stored(email)

WrongPassword(email, password) ==
    \E i \in DOMAIN users :
        /\ users[i].email = email
        /\ users[i].hashed_password.checksum # <<users[i].hashed_password.salt, password>>

InvalidCredentials ==
    [status |-> 401, detail |-> "Incorrect username or password",
     access_token |-> NoJwt, refresh_token |-> NoJwt]

C5_LoginFailuresIndistinguishable ==
    [][/\ \A e1, e2 \in Emails, p1, p2 \in Passwords :
             (UnknownEmail(e1) /\ WrongPassword(e2, p2)) =>
                 /\ LoginResponse(users, e1, p1, now) = LoginResponse(users, e2, p2, now)
                 /\ LoginResponse(users, e1, p1, now) = InvalidCredentials
       /\ (ev'.op = "login"
             /\ (UnknownEmail(ev'.email) \/ WrongPassword(ev'.email, ev'.password))) =>
             /\ ev'.status = 401
             /\ ev'.detail = "Incorrect username or password"
             /\ ev'.access_token = NoJwt /\ ev'.refresh_token = NoJwt
             /\ users' = users /\ issued' = issued]_vars

\* A Login with a wrong password for a stored email was answered 401 while
\* another email is unknown.
C5_Witness ==
    /\ ev.op = "login" /\ ev.status = 401 /\ Stored(ev.email)
    /\ \E e \in Emails : UnknownEmail(e)

\* The accounting window read off the history of calls: a call opens a
\* window when there is none or the latest one is RATE_WINDOW seconds old.
RECURSIVE WindowOpener(_)
WindowOpener(h) ==
    IF h = <<>>
    THEN 0
    ELSE LET n == Len(h)
             a == WindowOpener(SubSeq(h, 1, n - 1))
         IN IF a = 0 \/ h[n].t >= h[a].t + RATE_WINDOW THEN n ELSE a

CallsInWindow(h, t) ==
    IF h = <<>> \/ t >= h[WindowOpener(h)].t + RATE_WINDOW
    THEN 0
    ELSE Len(h) - WindowOpener(h) + 1

\* C6: of the authenticated, valid contact-creation calls of one client
\* inside one 60-second window, the first 5 are answered 200 and create
\* the contact; the 6th and later ones are answered 429 and create none.
C6_FiveThenRateLimited ==
    [][\A k \in Clients :
          calls'[k] # calls[k] =>
              /\ ev'.op = "create_contact"
              /\ (CallsInWindow(calls[k], now) < RATE_AMOUNT /\ ev'.detail = "valid") =>
                    (ev'.status = 200 /\ contacts' = Append(contacts, [owner_id |-> ev'.id]))
              /\ CallsInWindow(calls[k], now) >= RATE_AMOUNT =>
                    (ev'.status = 429 /\ contacts' = contacts)]_vars

\* The 6th call of a window was answered 429 after five contacts were
\* created in it.
C6_Witness ==
    /\ ev.op = "create_contact" /\ ev.status = 429
    /\ \E k \in Clients :
          /\ Len(calls[k]) = RATE_AMOUNT + 1
          /\ \A i \in 1..RATE_AMOUNT : calls[k][i].ok
          /\ calls[k][RATE_AMOUNT + 1].t < calls[k][1].t + RATE_WINDOW
    /\ Len(contacts) = RATE_AMOUNT

\* C7: in every interval of 60 seconds, wherever it starts, at most 6
\* contact-creation calls of one client are let through by the limiter.
C7_RollingWindowAtMostSix ==
    \A k \in Clients :
        \A i \in DOMAIN calls[k] :
            Cardinality({j \in DOMAIN calls[k] :
                            /\ calls[k][j].ok
                            /\ calls[k][j].t >= calls[k][i].t
                            /\ calls[k][j].t < calls[k][i].t + RATE_WINDOW})
                <= RATE_AMOUNT + 1


\* C8: verification is monotonic: whatever operation runs, a user whose
\* is_verified flag is true keeps it true in the next state.
C8_VerifiedNeverReverts ==
    [][\A i \in DOMAIN users :
          users[i].is_verified = TRUE =>
              (i \in DOMAIN users' /\ users'[i].is_verified = TRUE)]_vars

\* An avatar upload committed for a user who is verified.
C8_Witness ==
    /\ ev.op = "upload_avatar_commit"
    /\ users[ev.id].is_verified = TRUE
    /\ users[ev.id].avatar_url # NoUrl

\* C9: a verification token that is NULL stays NULL, whatever operation
\* runs; and a Verify that presents a token some Verify has already
\* succeeded with is answered 400 "Invalid token" and changes nothing.
Consumed(token) == \E j \in DOMAIN verify_ok : verify_ok[j] = token

C9_ConsumedTokenStaysConsumed ==
    [][/\ \A i \in DOMAIN users :
             users[i].verification_token = NULL => users'[i].verification_token = NULL
       /\ (ev'.op = "verify" /\ Consumed(ev'.vtoken)) =>
             (ev'.status = 400 /\ ev'.detail = "Invalid token" /\ users' = users /\ pc' = pc)]_vars

\* A Verify presented a consumed token and was answered 400.
C9_Witness ==
    /\ ev.op = "verify" /\ ev.status = 400 /\ Consumed(ev.vtoken)
    /\ \E i \in DOMAIN users : users[i].verification_token = NULL

\* C10: a successful Verify leaves the user that held the token persisted
\* with is_verified true, is_active true and no verification token, and
\* leaves every other user record as it was.
C10_VerifyPersistsVerifiedActive ==
    [][(ev'.op = "verify_commit" /\ ev'.status = 200) =>
          /\ users'[ev'.id].is_verified = TRUE
          /\ "is_active" \in DOMAIN users'[ev'.id]
          /\ users'[ev'.id].is_active = TRUE
          /\ users'[ev'.id].verification_token = NULL
          /\ \A i \in DOMAIN users : i # ev'.id => users'[i] = users[i]]_vars

\* C11: a Verify with a token that no stored user holds as its
\* verification_token is answered 400 "Invalid token" and ends there: no
\* user record changes (flags, tokens), nothing is left to commit and no
\* success is recorded.
HeldToken(token) == \E i \in DOMAIN users : users[i].verification_token = token

C11_UnknownTokenRejected ==
    [][(ev'.op = "verify" /\ ~HeldToken(ev'.vtoken)) =>
          /\ ev'.status = 400
          /\ ev'.detail = "Invalid token"
          /\ users' = users
          /\ pc' = pc /\ loc' = loc
          /\ verify_ok' = verify_ok]_vars

\* A Verify was answered 400 for a token nobody holds while a stored user
\* still holds another token.
C11_Witness ==
    /\ ev.op = "verify" /\ ev.status = 400 /\ ~HeldToken(ev.vtoken)
    /\ \E i \in DOMAIN users :
          users[i].verification_token # NULL /\ ~users[i].is_verified

\* C12: a Register that succeeds for an email not yet present commits
\* exactly one new user record: that email, is_verified false, a bcrypt
\* digest that the registration password verifies against and no other
\* password does, and a non-empty verification token; it then hands
\* exactly one mail to the mail collaborator, addressed to that email and
\* carrying that token, and answers 200.
MailsTo(box, email) == {j \in DOMAIN box : box[j].recipient = email}

C12_RegisterCreatesUnverifiedAndMails ==
    [][/\ (ev'.op = "register_commit" /\ ev'.status # 500) =>
             /\ ~Stored(ev'.email)
             /\ Len(users') = Len(users) + 1
             /\ SubSeq(users', 1, Len(users)) = users
             /\ ev'.id = Len(users')
             /\ users'[ev'.id].email = ev'.email
             /\ users'[ev'.id].is_verified = FALSE
             /\ users'[ev'.id].hashed_password.scheme = "bcrypt"
             /\ \A pw \in Passwords :
                   verify_password(pw, users'[ev'.id].hashed_password) <=> pw \in RegPasswords
             /\ users'[ev'.id].verification_token # NULL
             /\ users'[ev'.id].verification_token = ev'.vtoken
             /\ outbox' = outbox
       /\ ev'.op = "register_send" =>
             /\ ev'.status = 200
             /\ users' = users
             /\ {i \in DOMAIN users : users[i].email = ev'.email} = {ev'.id}
             /\ ev'.vtoken # NULL
             /\ outbox' = Append(outbox, [recipient |-> ev'.email, token |-> ev'.vtoken])
             /\ Cardinality(MailsTo(outbox', ev'.email)) = 1]_vars

\* A Register returned 200: its user is stored unverified with the token
\* that the one mail to its address carries.
C12_Witness ==
    /\ ev.op = "register_send" /\ ev.status = 200
    /\ ~users[ev.id].is_verified /\ users[ev.id].verification_token = ev.vtoken
    /\ \E j \in DOMAIN outbox : outbox[j] = [recipient |-> ev.email, token |-> ev.vtoken]

\* C13: a Login with a stored email and its password answers 200 with one
\* access token and one refresh token, both signed by the server with the
\* login email as subject, the access token expiring 15 minutes and the
\* refresh token 7 days after the time of the call; these two are what the
\* call issues, and it changes no user record.
CorrectCredentials(email, password) ==
    \E i \in DOMAIN users :
        /\ users[i].email = email
        /\ users[i].hashed_password.checksum = <<users[i].hashed_password.salt, password>>

C13_LoginIssuesTokenPair ==
    [][(ev'.op = "login" /\ CorrectCredentials(ev'.email, ev'.password)) =>
          /\ ev'.status = 200
          /\ ev'.access_token = [sub |-> ev'.email, exp |-> now + 15 * 60, key |-> SECRET_KEY]
          /\ ev'.refresh_token = [sub |-> ev'.email, exp |-> now + 7 * 24 * 60 * 60,
                                  key |-> SECRET_KEY]
          /\ issued' = issued \cup
                {[kind |-> "access", tok |-> ev'.access_token, sub |-> ev'.email, at |-> now],
                 [kind |-> "refresh", tok |-> ev'.refresh_token, sub |-> ev'.email, at |-> now]}
          /\ users' = users]_vars

\* A Login succeeded at a time after the clock had moved.
C13_Witness ==
    /\ ev.op = "login" /\ ev.status = 200 /\ now > 0
    /\ ev.access_token.exp = now + ACCESS_TOKEN_EXPIRE
    /\ ev.refresh_token.exp = now + REFRESH_TOKEN_EXPIRE
    /\ IssuedAs("refresh", ev.refresh_token)

\* C14: refresh tokens are neither rotated nor invalidated.  Whatever has
\* happened before, every refresh token the server issued is accepted at
\* every time up to its exp; a RefreshAccessToken that presents one then
\* answers 200 with an access token for the same subject, expiring 15
\* minutes after the call, and leaves the refresh token issued; one that
\* presents it after its exp, or presents a token not signed by the
\* server, answers 401 "Invalid refresh token" and issues nothing.
C14_RefreshTokenReusableUntilExp ==
    [][/\ \A i \in issued :
             (i.kind = "refresh" /\ now <= i.tok.exp) =>
                 (verify_refresh_token(i.tok, now).ok
                  /\ verify_refresh_token(i.tok, now).sub = i.sub)
       /\ (ev'.op = "refresh" /\ IssuedAs("refresh", ev'.jwt) /\ now <= ev'.jwt.exp) =>
             /\ ev'.status = 200
             /\ ev'.access_token = [sub |-> ev'.jwt.sub, exp |-> now + 15 * 60,
                                    key |-> SECRET_KEY]
             /\ issued' = issued \cup {[kind |-> "access", tok |-> ev'.access_token,
                                         sub |-> ev'.jwt.sub, at |-> now]}
             /\ users' = users
       /\ (ev'.op = "refresh" /\ (now > ev'.jwt.exp \/ ev'.jwt.key # SECRET_KEY)) =>
             /\ ev'.status = 401
             /\ ev'.detail = "Invalid refresh token"
             /\ ev'.access_token = NoJwt
             /\ issued' = issued]_vars

\* The same refresh token was accepted at two different times after its
\* issue: two access tokens of its subject, younger than it, are issued.
C14_Witness ==
    /\ ev.op = "refresh" /\ ev.status = 200 /\ IssuedAs("refresh", ev.jwt)
    /\ \E r \in issued :
          /\ r.kind = "refresh" /\ r.tok = ev.jwt
          /\ \E a \in issued :
                /\ a.kind = "access" /\ a.sub = r.sub /\ a.at > r.at /\ a.at < now
          /\ \E b \in issued : b.kind = "access" /\ b.sub = r.sub /\ b.at = now

\* C15: get_current_user returns a user only for a token that decodes
\* (server's signature, not expired), carries a subject and whose subject
\* is a stored user's email, and then it returns that user; when the token
\* does not decode, or has no subject, or no stored user has that email,
\* contact creation is answered 401 "Could not validate credentials" in
\* each case alike, the limiter is not reached and no contact is created.
Decodes(token, t) == token.key = SECRET_KEY /\ token.exp >= t

Resolvable(token, t) == Decodes(token, t) /\ token.sub # "" /\ Stored(token.sub)

C15_ResolveCurrentUser ==
    [][/\ \A tk \in Presentable :
             LET u == get_current_user(users, tk, now)
             IN /\ u # 0 => (Resolvable(tk, now) /\ u \in DOMAIN users
                             /\ users[u].email = tk.sub)
                /\ Resolvable(tk, now) => u # 0
       /\ (ev'.op = "create_contact" /\ ~Resolvable(ev'.jwt, now)) =>
             /\ ev'.status = 401
             /\ ev'.detail = "Could not validate credentials"
             /\ ev'.id = 0
             /\ contacts' = contacts
             /\ storage' = storage /\ calls' = calls
       /\ (ev'.op = "create_contact" /\ Resolvable(ev'.jwt, now)) =>
             /\ ev'.status # 401
             /\ ev'.id \in DOMAIN users /\ users[ev'.id].email = ev'.jwt.sub]_vars

\* A token that decodes and names an email no stored user has was turned
\* away with 401 while another user is stored.
C15_Witness ==
    /\ ev.op = "create_contact" /\ ev.status = 401
    /\ Decodes(ev.jwt, now) /\ ev.jwt.sub # "" /\ ~Stored(ev.jwt.sub)
    /\ users # <<>> /\ contacts = <<>>

\* C16: the birthday listing returns exactly the contacts whose birthday
\* comes up within the next week: a contact is in the response if and
\* only if the anniversary of its birthday (same month and day, in
\* whatever year) falls on one of the days today .. today + 7.
Anniversary(birthday, y) == y * YEAR + (birthday % YEAR)

BirthdayComesUp(birthday, today) ==
    \E y \in {today \div YEAR, today \div YEAR + 1} :
        /\ Anniversary(birthday, y) >= today
        /\ Anniversary(birthday, y) <= today + 7

C16_UpcomingBirthdaysByMonthDay ==
    ev.op = "upcoming_birthdays" =>
        \A i \in DOMAIN contacts :
            (\E j \in DOMAIN ev.body : ev.body[j] = contacts[i])
                <=> BirthdayComesUp(contacts[i].birthday, now \div 86400)

\* C17: no two stored user records have the same email, in any state; and
\* when a Register reaches its commit for an email that another Register
\* has stored since its existence check, it stores no record and sends no
\* mail.
C17_EmailUnique ==
    [][/\ \A i, j \in DOMAIN users' : users'[i].email = users'[j].email => i = j
       /\ (ev'.op = "register_commit" /\ Stored(ev'.email)) =>
             /\ users' = users
             /\ outbox' = outbox
             /\ \E p \in Procs : pc[p] = "register_commit" /\ pc'[p] = "idle"]_vars

\* Two Registers for one email both passed the existence check; the second
\* to commit was refused by the unique index and the email is stored once.
C17_Witness ==
    /\ ev.op = "register_commit" /\ ev.status = 500 /\ ev.detail = "IntegrityError"
    /\ Cardinality({i \in DOMAIN users : users[i].email = ev.email}) = 1
    /\ \A i \in DOMAIN users : users[i].email = ev.email => users[i].verification_token # ev.vtoken

\* C18: in every state, a user whose is_verified flag is true has a NULL
\* verification_token, whether the flag was set by Verify or by the
\* administrative verify_user.
C18_VerifiedHoldsNoToken ==
    \A i \in DOMAIN users : users[i].is_verified = TRUE => users[i].verification_token = NULL

\* C19: the verification state plays no part in Login or in the resolution
\* of the current user.  A Login with the email and password of a stored
\* user who is not verified answers 200 with an access and a refresh token
\* for that email; an access token issued for such a user resolves to that
\* user; and a contact creation that presents it is not answered 401, and
\* with a valid body, as the client's first call, it is answered 200 and
\* stores a contact owned by that user.
Unverified(email) ==
    \E i \in DOMAIN users : users[i].email = email /\ users[i].is_verified = FALSE

C19_UnverifiedUserCanLoginAndAct ==
    [][/\ (ev'.op = "login" /\ CorrectCredentials(ev'.email, ev'.password)
             /\ Unverified(ev'.email)) =>
             /\ ev'.status = 200
             /\ ev'.access_token.sub = ev'.email /\ ev'.access_token.key = SECRET_KEY
             /\ ev'.refresh_token.sub = ev'.email /\ ev'.refresh_token.key = SECRET_KEY
             /\ \E i \in issued' : i.kind = "access" /\ i.tok = ev'.access_token
       /\ \A i \in issued :
             (i.kind = "access" /\ Unverified(i.sub) /\ now <= i.tok.exp) =>
                 /\ get_current_user(users, i.tok, now) # 0
                 /\ users[get_current_user(users, i.tok, now)].email = i.sub
       /\ (ev'.op = "create_contact" /\ IssuedAs("access", ev'.jwt)
             /\ Unverified(ev'.jwt.sub) /\ now <= ev'.jwt.exp) =>
             /\ ev'.status # 401
             /\ users[ev'.id].email = ev'.jwt.sub
             /\ (ev'.detail = "valid" /\ \A k \in Clients : calls[k] = <<>>) =>
                   (ev'.status = 200 /\ contacts' = Append(contacts, [owner_id |-> ev'.id]))]_vars

\* A user who is not verified, holding an unused verification token,
\* created a contact with an access token obtained by Login.
C19_Witness ==
    /\ ev.op = "create_contact" /\ ev.status = 200
    /\ IssuedAs("access", ev.jwt)
    /\ users[ev.id].email = ev.jwt.sub
    /\ users[ev.id].is_verified = FALSE /\ users[ev.id].verification_token # NULL
    /\ contacts # <<>> /\ contacts[Len(contacts)].owner_id = ev.id

====
